---- MODULE Spec2Model ----
(***************************************************************************)
(* Model of the quality-check engine of algorzen_dqt:                      *)
(*   checks/base.py            QualityCheck.run, update_config             *)
(*   checks/missing_values.py  MissingValuesCheck                          *)
(*   checks/duplicates.py      DuplicatesCheck                             *)
(*   checks/outliers.py        OutliersCheck                               *)
(*   core/engine.py            DataQualityEngine                           *)
(*   utils/monitoring.py       PerformanceMonitor timers and metrics       *)
(*                                                                         *)
(* Numbers.  Python floats are modelled by exact fixed-point integers:     *)
(*   - a score s in [0,1] is the integer s * ScoreScale; ScoreScale is     *)
(*     divisible by every denominator the score formulas produce within    *)
(*     the bounds, so no rounding happens;                                 *)
(*   - a threshold in [0,1] is given in hundredths (0.8 is 80), a z-score  *)
(*     cutoff or IQR multiplier in tenths (3.5 is 35);                     *)
(*   - an execution time is a number of ticks of 0.1 s.                    *)
(***************************************************************************)
EXTENDS Integers, Sequences, FiniteSets, TLC

(***************************************************************************)
(* Bounds of the model.                                                    *)
(***************************************************************************)
\* rows of a dataset
MaxRows == 3
\* largest elapsed time (ticks) one execute may measure
MaxElapsed == 1
\* results one engine may hold in self.results
MaxResults == 4
\* length of an explicit check_types list
MaxTypes == 2
\* max_history of a PerformanceMonitor: the length its metric deques keep
MaxHistory == 2

(***************************************************************************)
(* State.                                                                  *)
(***************************************************************************)
VARIABLES
    data,       \* the dataset the caller holds
    check,      \* <<>> or <<the check object under test>>
    outcome,    \* <<>> or <<the outcome of the last run(data) on check as configured>>
    previous,   \* <<>> or <<the result of the run(data) on check before that one>>
    results,    \* DataQualityEngine.results
    requested,  \* <<>> or <<the check_types of the last run_quality_checks>>
    returned,   \* the list the last run_quality_checks returned
    invoked,    \* per requested type of that call, the method awaited
    summary,    \* <<>> or <<what get_summary() returned, if called last>>
    active_timers,  \* PerformanceMonitor.active_timers: timer name -> start time
    metrics,    \* PerformanceMonitor.metrics: metric name -> values kept
    lock,       \* whether PerformanceMonitor._lock is held
    threads     \* per thread, the monitor call it is in and where it stands

(***************************************************************************)
(* Generic helpers.                                                        *)
(***************************************************************************)
Min(a, b) == IF a <= b THEN a ELSE b

Max(a, b) == IF a >= b THEN a ELSE b

Abs(a) == IF a >= 0 THEN a ELSE 0 - a

RECURSIVE Fact(_)
Fact(n) == IF n <= 1 THEN 1 ELSE n * Fact(n - 1)

RECURSIVE SumSeq(_)
SumSeq(s) == IF s = <<>> THEN 0 ELSE Head(s) + SumSeq(Tail(s))

RECURSIVE SeqsUpTo(_, _)
SeqsUpTo(S, n) ==
    IF n = 0 THEN {<<>>}
    ELSE LET shorter == SeqsUpTo(S, n - 1)
         IN  shorter \cup {Append(s, x) : s \in {t \in shorter : Len(t) = n - 1}, x \in S}

(***************************************************************************)
(* Dataset: a pandas DataFrame.  dtypes[j] is the kind of column j ("num": *)
(* int64/float64, "obj": object) and rows[i][j] the cell of row i in       *)
(* column j.  A frame has the default RangeIndex (row i has label i - 1)   *)
(* unless it carries a field index: then index[i] - 1 is the label of row  *)
(* i.  Row labels and row positions are both written from 1 in the model.  *)
(* A cell is NaN, a number, a string (a sequence of characters) or a list  *)
(* object (unhashable).  Numeric columns hold only numbers and NaN.        *)
(***************************************************************************)
NaN == [kind |-> "nan", v |-> 0, s |-> <<>>]

Num(n) == [kind |-> "num", v |-> n, s |-> <<>>]

Str(t) == [kind |-> "str", v |-> 0, s |-> t]

Lst == [kind |-> "list", v |-> 0, s |-> <<>>]

NumCells == {NaN, Num(1), Num(2), Num(9)}

ObjCells == {NaN, Str(<<>>), Str(<<"a">>), Lst}

\* cells of the two-column frames
NarrowNumCells == {NaN, Num(1)}

NarrowObjCells == {NaN, Str(<<"a">>)}

\* the frames of a schema (one dtype per column) with at most MaxRows rows
Frames(schema, numCells, objCells) ==
    LET RowSet == { row \in [1..Len(schema) -> numCells \cup objCells] :
                      \A j \in 1..Len(schema) :
                          row[j] \in (IF schema[j] = "num" THEN numCells ELSE objCells) }
    IN  { [dtypes |-> schema, rows |-> rs] : rs \in SeqsUpTo(RowSet, MaxRows) }

\* rows of a frame that is long enough to be sampled
LongRows == MaxRows + 1

\* one-column frames of LongRows rows: a numeric column of two values, and
\* an object column of missing cells and of the string "nan"
LongFrames ==
    {[dtypes |-> <<"num">>, rows |-> rs] :
        rs \in [1..LongRows -> {<<Num(1)>>, <<Num(9)>>}]}
      \cup {[dtypes |-> <<"obj">>, rows |-> rs] :
                rs \in [1..LongRows -> {<<NaN>>, <<Str(<<"n", "a", "n">>)>>}]}

\* the least max_fuzzy_comparisons that DuplicatesCheck.validate_config
\* accepts
MinFuzzyComparisons == 100

\* single frames: the numeric column 1, 2, 3, 4, 5, 100; a numeric column
\* with a missing cell and one low value; a constant numeric column next to
\* a column with one far value; an object column of equal rows, as
\* many as it takes to have more than MinFuzzyComparisons pairs of rows;
\* two frames with an index of their own (rows reordered, rows cut out of a
\* longer frame)
ExampleFrames ==
    LET many == CHOOSE n \in 1..MinFuzzyComparisons :
                    /\ n * (n - 1) > 2 * MinFuzzyComparisons
                    /\ (n - 1) * (n - 2) <= 2 * MinFuzzyComparisons
    IN
    {[dtypes |-> <<"num">>,
      rows |-> << <<Num(1)>>, <<Num(2)>>, <<Num(3)>>, <<Num(4)>>, <<Num(5)>>, <<Num(100)>> >>],
     [dtypes |-> <<"num">>,
      rows |-> << <<NaN>>, <<Num(9)>>, <<Num(9)>>, <<Num(9)>>, <<Num(1)>> >>],
     [dtypes |-> <<"num", "num">>,
      rows |-> << <<Num(1), Num(1)>>, <<Num(1), Num(2)>>, <<Num(1), Num(9)>> >>],
     [dtypes |-> <<"obj">>, rows |-> [i \in 1..many |-> <<Str(<<"a">>)>>]],
     [dtypes |-> <<"obj">>, index |-> <<2, 3, 1>>,
      rows |-> << <<Str(<<"a">>)>>, <<Str(<<"a">>)>>, <<Str(<<>>)>> >>],
     [dtypes |-> <<"obj">>, index |-> <<3, 4>>,
      rows |-> << <<Str(<<"a">>)>>, <<Str(<<"a">>)>> >>]}

\* the datasets the checks are run on
DataSets ==
    Frames(<<"num">>, NumCells, ObjCells)
      \cup Frames(<<"obj">>, NumCells, ObjCells)
      \cup Frames(<<"obj", "num">>, NarrowNumCells, NarrowObjCells)
      \cup LongFrames
      \cup ExampleFrames

NRows(d) == Len(d.rows)

NCols(d) == Len(d.dtypes)

\* data.index[...] of the rows: their labels
RowLabels(d, rows) ==
    IF "index" \in DOMAIN d THEN {d.index[i] : i \in rows} ELSE rows

\* data[column] as a sequence of cells
Column(d, j) == [i \in 1..NRows(d) |-> d.rows[i][j]]

\* DataFrame.empty: some axis has length 0
IsEmptyFrame(d) == NRows(d) = 0 \/ NCols(d) = 0

(***************************************************************************)
(* CheckResult (checks/base.py) and the status rule of the checks.         *)
(***************************************************************************)
ScoreScale == 200 * Fact(LongRows)

Clamp01(x) == Max(0, Min(ScoreScale, x))

CheckResult(type, status, score, time, err) ==
    [check_type |-> type, status |-> status, score |-> score,
     execution_time |-> time, error |-> err]

\* a variant of _determine_status whose first cut point is exclusive
DetermineStatusStrict(quality_score) ==
    IF 10 * quality_score > 9 * ScoreScale THEN "passed"
    ELSE IF 10 * quality_score >= 7 * ScoreScale THEN "warning"
    ELSE IF 10 * quality_score >= 5 * ScoreScale THEN "failed"
    ELSE "critical"

\* _determine_status, the same in the three checks
DetermineStatus(quality_score) ==
    IF 10 * quality_score >= 9 * ScoreScale THEN "passed"
    ELSE IF 10 * quality_score >= 7 * ScoreScale THEN "warning"
    ELSE IF 10 * quality_score >= 5 * ScoreScale THEN "failed"
    ELSE "critical"

\* a variant of the except branch that drops the exception's message
ErrorResultWithoutMessage(type, time, msg) == CheckResult(type, "error", 0, time, "")

\* the result execute builds in its except branch
ErrorResult(type, time, msg) == CheckResult(type, "error", 0, time, msg)

\* the result execute builds at the end of its try block; analysis is the
\* analysis dict its details, affected_rows and affected_columns are read from
ScoredResult(type, quality_score, time, analysis) ==
    CheckResult(type, DetermineStatus(quality_score), quality_score, time, "")
        @@ [analysis |-> analysis]

(***************************************************************************)
(* MissingValuesCheck (checks/missing_values.py).                          *)
(***************************************************************************)
DefaultCustomNa ==
    << <<"N", "/", "A">>, <<"N", "U", "L", "L">>, <<"n", "u", "l", "l">>,
       <<"N", "o", "n", "e">>, <<"n", "o", "n", "e">>, <<>> >>

MissingValuesConfig ==
    [enabled |-> TRUE, threshold |-> 80, missing_threshold |-> 10, critical_threshold |-> 50,
     detect_empty_strings |-> TRUE, detect_whitespace |-> TRUE,
     detect_na_values |-> TRUE, detect_custom_na |-> DefaultCustomNa,
     analyze_patterns |-> TRUE, analyze_correlations |-> TRUE,
     suggest_imputation |-> TRUE]

MissingValidateConfig(config) ==
    IF ~(0 <= config.missing_threshold /\ config.missing_threshold <= 100) THEN FALSE
    ELSE IF ~(0 <= config.critical_threshold /\ config.critical_threshold <= 100) THEN FALSE
    ELSE IF config.missing_threshold >= config.critical_threshold THEN FALSE
    ELSE TRUE

IsSpace(c) == c \in {" ", "\t", "\n"}

\* str.strip() leaves the empty string
StripsToEmpty(t) == \A k \in 1..Len(t) : IsSpace(t[k])

\* series.isna()
IsNa(cell) == cell.kind = "nan"

\* series == token, for a string token
EqualsStr(cell, token) == cell.kind = "str" /\ cell.s = token

\* series.astype(str).str.strip().eq(""): only a string can strip to ""
\* (str(NaN) is "nan", a number prints its digits, a list prints brackets)
IsBlank(cell) == cell.kind = "str" /\ StripsToEmpty(cell.s)

\* (series == token).sum()
CountEquals(series, token) ==
    Cardinality({i \in 1..Len(series) : EqualsStr(series[i], token)})

\* a variant of _count_missing_values that counts a cell once, however many
\* of the enabled methods match it
CountMissingCells(config, series) ==
    Cardinality({i \in 1..Len(series) :
        \/ config.detect_na_values /\ IsNa(series[i])
        \/ config.detect_empty_strings /\ EqualsStr(series[i], <<>>)
        \/ config.detect_whitespace /\ IsBlank(series[i])
        \/ \E k \in 1..Len(config.detect_custom_na) :
              EqualsStr(series[i], config.detect_custom_na[k])})

\* _count_missing_values: the sum of the enabled methods' counts
CountMissingValues(config, series) ==
    (IF config.detect_na_values
     THEN Cardinality({i \in 1..Len(series) : IsNa(series[i])}) ELSE 0)
    + (IF config.detect_empty_strings THEN CountEquals(series, <<>>) ELSE 0)
    + (IF config.detect_whitespace
       THEN Cardinality({i \in 1..Len(series) : IsBlank(series[i])}) ELSE 0)
    + SumSeq([k \in 1..Len(config.detect_custom_na) |->
                 CountEquals(series, config.detect_custom_na[k])])

\* data.isna() of row i as a tuple
NaPattern(d, i) == [j \in 1..NCols(d) |-> IsNa(d.rows[i][j])]

\* _analyze_missing_patterns: some row pattern covers more than 10% of the rows
SystematicMissing(d) ==
    \E i \in 1..NRows(d) :
        10 * Cardinality({k \in 1..NRows(d) : NaPattern(d, k) = NaPattern(d, i)}) > NRows(d)

\* the exception _analyze_missing_values raises ("" when none): the missing
\* percentage of a column of no rows, the overall percentage of no cells,
\* the recommendations' read of the pattern analysis that did not run
MissingAnalysisException(config, d) ==
    IF NCols(d) > 0 /\ NRows(d) = 0 THEN "division by zero"
    ELSE IF NRows(d) * NCols(d) = 0 THEN "division by zero"
    ELSE IF ~config.analyze_patterns /\ config.suggest_imputation
         THEN "'systematic_missing'"
    ELSE ""

\* the analysis dict, given the per-column counts
MissingAnalysis(config, d, counts) ==
    [exc |-> MissingAnalysisException(config, d),
     total_rows |-> NRows(d),
     total_columns |-> NCols(d),
     missing_counts |-> counts,
     columns_with_missing |-> Cardinality({j \in 1..NCols(d) : counts[j] > 0}),
     total_missing |-> SumSeq(counts),
     has_patterns |-> config.analyze_patterns,
     systematic_missing |-> config.analyze_patterns /\ SystematicMissing(d)]

\* _analyze_missing_values
AnalyzeMissingValues(config, d) ==
    MissingAnalysis(config, d,
                    [j \in 1..NCols(d) |-> CountMissingValues(config, Column(d, j))])

\* a variant of _calculate_quality_score without the final clamp
MissingQualityScoreUnclamped(analysis) ==
    ScoreScale
      - (ScoreScale * analysis.total_missing)
            \div (2 * analysis.total_rows * analysis.total_columns)
      - (ScoreScale * analysis.columns_with_missing) \div (5 * analysis.total_columns)
      - (IF analysis.systematic_missing THEN ScoreScale \div 10 ELSE 0)

\* _calculate_quality_score (called when the analysis raised nothing)
MissingQualityScore(analysis) ==
    Clamp01(ScoreScale
              - (ScoreScale * analysis.total_missing)
                    \div (2 * analysis.total_rows * analysis.total_columns)
              - (ScoreScale * analysis.columns_with_missing)
                    \div (5 * analysis.total_columns)
              - (IF analysis.systematic_missing THEN ScoreScale \div 10 ELSE 0))

\* the exception met in execute's try block after validation: the one of
\* the analysis, or the score's read of the pattern analysis that did not run
MissingException(analysis) ==
    IF analysis.exc # "" THEN analysis.exc
    ELSE IF ~analysis.has_patterns THEN "'systematic_missing'"
    ELSE ""

\* execute after validation: the rest of the try block and the except branch
MissingResult(analysis, elapsed) ==
    IF MissingException(analysis) # ""
    THEN ErrorResult("missing_values", elapsed, MissingException(analysis))
    ELSE ScoredResult("missing_values", MissingQualityScore(analysis), elapsed, analysis)

\* execute
MissingExecute(config, d, elapsed) ==
    IF ~MissingValidateConfig(config)
    THEN ErrorResult("missing_values", elapsed, "Invalid configuration")
    ELSE MissingResult(AnalyzeMissingValues(config, d), elapsed)

(***************************************************************************)
(* DuplicatesCheck (checks/duplicates.py).  The exact and the business-key *)
(* method report rows by label, the fuzzy method by position in            *)
(* sample_data; with the default RangeIndex and no sample drawn a row's    *)
(* label and its position agree.                                           *)
(***************************************************************************)
DuplicatesConfig ==
    [enabled |-> TRUE, threshold |-> 80, exact_matching |-> TRUE, fuzzy_matching |-> TRUE,
     business_key_matching |-> TRUE, semantic_matching |-> FALSE,
     fuzzy_threshold |-> 80, business_key_columns |-> <<>>,
     analyze_duplicate_patterns |-> TRUE, suggest_deduplication |-> TRUE,
     max_fuzzy_comparisons |-> 10000, use_sampling |-> TRUE, sample_size |-> 10000]

DuplicatesValidateConfig(config) ==
    IF ~(0 <= config.fuzzy_threshold /\ config.fuzzy_threshold <= 100) THEN FALSE
    ELSE IF config.max_fuzzy_comparisons < MinFuzzyComparisons THEN FALSE
    ELSE IF config.sample_size < 100 THEN FALSE
    ELSE TRUE

\* a list cell makes pandas' hashing (duplicated, value_counts) raise TypeError
Unhashable(d, cols) ==
    \E i \in 1..NRows(d) : \E j \in cols : d.rows[i][j].kind = "list"

DigitChar(n) == <<"0", "1", "2", "3", "4", "5", "6", "7", "8", "9">>[n + 1]

RECURSIVE Digits(_)
Digits(n) == IF n < 10 THEN <<DigitChar(n)>>
             ELSE Append(Digits(n \div 10), DigitChar(n % 10))

\* a numeric column that holds NaN is float64, otherwise int64
ColIsFloat(d, j) ==
    d.dtypes[j] = "num" /\ \E i \in 1..NRows(d) : IsNa(d.rows[i][j])

\* a row taken as a Series (data.loc[idx], data.iloc[i]) of an all-numeric
\* frame is upcast to float64 as soon as one column is
PrintsAsFloat(d, j) ==
    /\ d.dtypes[j] = "num"
    /\ \/ ColIsFloat(d, j)
       \/ /\ \A k \in 1..NCols(d) : d.dtypes[k] = "num"
          /\ \E k \in 1..NCols(d) : ColIsFloat(d, k)

\* str(val) of a cell; asFloat tells how a number prints
StrOfCell(cell, asFloat) ==
    CASE cell.kind = "nan"  -> <<"n", "a", "n">>
      [] cell.kind = "str"  -> cell.s
      [] cell.kind = "list" -> <<"[", "]">>
      [] cell.kind = "num"  ->
            IF asFloat THEN Digits(cell.v) \o <<".", "0">> ELSE Digits(cell.v)

\* str(val) of the cell of row i in column j
StrOf(d, i, j) == StrOfCell(d.rows[i][j], PrintsAsFloat(d, j))

\* "|".join(str(val) for val in row.values), the text _hash_row digests
RECURSIVE JoinRow(_, _, _)
JoinRow(d, i, j) ==
    IF j = 0 THEN <<>>
    ELSE (IF j = 1 THEN <<>> ELSE JoinRow(d, i, j - 1) \o <<"|">>) \o StrOf(d, i, j)

HashRow(d, i) == JoinRow(d, i, NCols(d))

\* data.duplicated(subset=cols, keep=False): rows with an equal other row
DuplicatedRows(d, cols) ==
    IF cols = {} THEN {}
    ELSE { i \in 1..NRows(d) :
             \E k \in 1..NRows(d) :
                 k # i /\ \A j \in cols : d.rows[k][j] = d.rows[i][j] }

\* the dict a detection method returns
MethodAnalysis(duplicate_rows, duplicate_groups) ==
    [duplicate_rows |-> duplicate_rows,
     duplicate_groups |-> duplicate_groups,
     total_groups |-> Cardinality(duplicate_groups)]

\* hash_groups restricted to the groups of more than one row
HashGroups(d, duplicate_indices) ==
    {g \in {{k \in duplicate_indices : HashRow(d, k) = HashRow(d, i)} :
               i \in duplicate_indices} : Cardinality(g) > 1}

\* the part of _detect_exact_duplicates after data.duplicated
ExactAnalysis(d, duplicate_indices) ==
    MethodAnalysis(RowLabels(d, duplicate_indices),
                   {RowLabels(d, g) : g \in HashGroups(d, duplicate_indices)})

\* _detect_exact_duplicates
DetectExactDuplicates(d) == ExactAnalysis(d, DuplicatedRows(d, 1..NCols(d)))

(* difflib.SequenceMatcher(None, a, b): find_longest_match returns the     *)
(* longest common block, the one starting earliest in a and then earliest  *)
(* in b; the matching blocks are found by recursing to its left and right. *)
\* the length of the common run of a[i..ahi] and b[j..bhi]
RECURSIVE BlockLen(_, _, _, _, _, _)
BlockLen(a, b, i, j, ahi, bhi) ==
    IF i > ahi \/ j > bhi THEN 0
    ELSE IF a[i] # b[j] THEN 0
    ELSE 1 + BlockLen(a, b, i + 1, j + 1, ahi, bhi)

\* the size of the longest common block of a[alo..ahi] and b[blo..bhi]
LongestSize(a, alo, ahi, b, blo, bhi) ==
    CHOOSE k \in 0..Len(a) :
        /\ k = 0 \/ \E i \in alo..ahi : \E j \in blo..bhi :
                        BlockLen(a, b, i, j, ahi, bhi) = k
        /\ \A i \in alo..ahi : \A j \in blo..bhi : BlockLen(a, b, i, j, ahi, bhi) <= k

\* the first block of that size
FirstBlock(a, alo, ahi, b, blo, bhi, size) ==
    CHOOSE c \in (alo..ahi) \X (blo..bhi) :
        /\ BlockLen(a, b, c[1], c[2], ahi, bhi) = size
        /\ \A e \in (alo..ahi) \X (blo..bhi) :
              BlockLen(a, b, e[1], e[2], ahi, bhi) = size =>
                  \/ c[1] < e[1]
                  \/ c[1] = e[1] /\ c[2] <= e[2]

\* find_longest_match as the triple <<i, j, size>>
LongestMatch(a, alo, ahi, b, blo, bhi, size) ==
    IF size = 0 THEN <<alo, blo, 0>>
    ELSE FirstBlock(a, alo, ahi, b, blo, bhi, size) \o <<size>>

FindLongestMatch(a, alo, ahi, b, blo, bhi) ==
    LongestMatch(a, alo, ahi, b, blo, bhi, LongestSize(a, alo, ahi, b, blo, bhi))

\* the total size of the matching blocks of a[alo..ahi] and b[blo..bhi]
RECURSIVE MatchingChars(_, _, _, _, _, _)
RECURSIVE MatchingAround(_, _, _, _, _, _, _)
MatchingChars(a, alo, ahi, b, blo, bhi) ==
    IF alo > ahi \/ blo > bhi THEN 0
    ELSE MatchingAround(a, alo, ahi, b, blo, bhi,
                        FindLongestMatch(a, alo, ahi, b, blo, bhi))

\* the block m, and the blocks to its left and to its right
MatchingAround(a, alo, ahi, b, blo, bhi, m) ==
    IF m[3] = 0 THEN 0
    ELSE m[3]
           + MatchingChars(a, alo, m[1] - 1, b, blo, m[2] - 1)
           + MatchingChars(a, m[1] + m[3], ahi, b, m[2] + m[3], bhi)

\* SequenceMatcher.ratio() = 2*M/T as the fraction <<numerator, denominator>>
Ratio(a, b) ==
    IF Len(a) + Len(b) = 0 THEN <<1, 1>>
    ELSE <<2 * MatchingChars(a, 1, Len(a), b, 1, Len(b)), Len(a) + Len(b)>>

\* the similarity appended for one column, given the two str(val): both
\* values are strings by then, so pd.isna(val) is False for each of them
StringSimilarity(val1, val2) == IF val1 = val2 THEN <<1, 1>> ELSE Ratio(val1, val2)

ColumnSimilarity(d, i, k, j) == StringSimilarity(StrOf(d, i, j), StrOf(d, k, j))

AddFractions(p, q) == <<p[1] * q[2] + q[1] * p[2], p[2] * q[2]>>

\* the sum of the column similarities of rows i and k over columns 1..j
RECURSIVE SimilaritySum(_, _, _, _)
SimilaritySum(d, i, k, j) ==
    IF j = 0 THEN <<0, 1>>
    ELSE AddFractions(SimilaritySum(d, i, k, j - 1), ColumnSimilarity(d, i, k, j))

\* np.mean(similarities) >= fuzzy_threshold; the mean of no similarities is
\* NaN, which compares False
MeanAtLeast(total, n, threshold) ==
    IF n = 0 THEN FALSE
    ELSE 100 * total[1] >= threshold * total[2] * n

\* _calculate_row_similarity(row i, row k) >= fuzzy_threshold
SimilarRows(config, d, i, k) ==
    MeanAtLeast(SimilaritySum(d, i, k, NCols(d)), NCols(d), config.fuzzy_threshold)

\* np.random.RandomState(42).permutation(size), as row numbers: the generator
\* is seeded anew by every call of sample, so the permutation of a frame of
\* size rows is always the same one
SeededPermutation(size) ==
    CASE size = 1 -> <<1>>
      [] size = 2 -> <<2, 1>>
      [] size = 3 -> <<1, 2, 3>>
      [] size = 4 -> <<2, 4, 1, 3>>
      [] size = 5 -> <<2, 5, 3, 1, 4>>
      [] size = 6 -> <<1, 2, 6, 3, 5, 4>>

\* a variant of sample that draws from the process-wide generator, whose
\* state an earlier draw has moved on
SampleRowsUnseeded(d, n) ==
    IF outcome = <<>>
    THEN [i \in 1..n |-> SeededPermutation(NRows(d))[i]]
    ELSE [i \in 1..n |-> SeededPermutation(NRows(d))[NRows(d) + 1 - i]]

\* data.sample(n, random_state=42): the first n rows of the seeded
\* permutation
SampleRows(d, n) == [i \in 1..n |-> SeededPermutation(NRows(d))[i]]

\* the rows of sample_data, as row numbers of data
FuzzySample(config, d) ==
    IF NRows(d) > config.max_fuzzy_comparisons /\ config.use_sampling
    THEN SampleRows(d, Min(config.sample_size, NRows(d)))
    ELSE [i \in 1..NRows(d) |-> i]

\* the number of times the double loop over sample_data calls
\* _calculate_row_similarity: once per pair (i, j) with i < j
FuzzyComparisons(config, d) ==
    Cardinality(UNION {{<<i, j>> : j \in (i + 1)..Len(FuzzySample(config, d))} :
                          i \in 1..Len(FuzzySample(config, d))})

\* the pairs (i, j), i < j, of positions in sample_data whose rows are similar
SimilarPairs(config, d, sample) ==
    UNION {{<<i, j>> : j \in {k \in (i + 1)..Len(sample) :
                                 SimilarRows(config, d, sample[i], sample[k])}} :
              i \in 1..Len(sample)}

Least(S) == CHOOSE x \in S : \A y \in S : x <= y

\* the keys of graph
GraphNodes(pairs) == {p[1] : p \in pairs} \cup {p[2] : p \in pairs}

\* the neighbours of current that are not visited yet
Unvisited(pairs, visited, current) ==
    {n \in GraphNodes(pairs) \ visited :
        <<current, n>> \in pairs \/ <<n, current>> \in pairs}

\* stack.append for each of the nodes ns
RECURSIVE PushAll(_, _)
PushAll(stack, ns) ==
    IF ns = {} THEN stack
    ELSE PushAll(Append(stack, Least(ns)),
                 ns \ {Least(ns)})

\* the while loop of _group_similar_rows: <<group, visited>> when the stack
\* is empty
RECURSIVE Component(_, _, _, _)
RECURSIVE Visit(_, _, _, _, _)
Component(pairs, stack, visited, group) ==
    IF stack = <<>> THEN <<group, visited>>
    ELSE Visit(pairs, stack, visited, group,
               Unvisited(pairs, visited, stack[Len(stack)]))

\* one turn of the loop: pop current, add it to the group, mark and push
\* its unvisited neighbours
Visit(pairs, stack, visited, group, neighbors) ==
    Component(pairs, PushAll(SubSeq(stack, 1, Len(stack) - 1), neighbors),
              visited \cup neighbors, group \cup {stack[Len(stack)]})

\* the for loop of _group_similar_rows over the nodes not looked at yet
RECURSIVE GroupsFrom(_, _, _)
RECURSIVE GroupsAfter(_, _, _)
GroupsFrom(pairs, nodes, visited) ==
    IF nodes = {} THEN {}
    ELSE IF Least(nodes) \in visited
    THEN GroupsFrom(pairs, nodes \ {Least(nodes)}, visited)
    ELSE GroupsAfter(pairs, nodes \ {Least(nodes)},
                     Component(pairs, <<Least(nodes)>>,
                               visited \cup {Least(nodes)},
                               {}))

\* the group just found is kept when it has more than one row
GroupsAfter(pairs, nodes, c) ==
    (IF Cardinality(c[1]) > 1 THEN {c[1]} ELSE {}) \cup GroupsFrom(pairs, nodes, c[2])

\* a variant of the grouping that makes a group of every pair by itself
GroupPairsOneByOne(pairs) == {{p[1], p[2]} : p \in pairs}

\* _group_similar_rows: the connected components of the pair graph
GroupSimilarRows(pairs) == GroupsFrom(pairs, GraphNodes(pairs), {})

\* the dict _detect_fuzzy_duplicates returns, given the pairs
FuzzyAnalysis(duplicate_pairs) ==
    LET groups == GroupSimilarRows(duplicate_pairs)
    IN  [duplicate_rows |-> GraphNodes(duplicate_pairs),
         duplicate_pairs |-> duplicate_pairs,
         duplicate_groups |-> groups,
         total_groups |-> Cardinality(groups)]

\* _detect_fuzzy_duplicates: pairs and groups are positions in sample_data
DetectFuzzyDuplicates(config, d) ==
    FuzzyAnalysis(SimilarPairs(config, d, FuzzySample(config, d)))

\* the key columns _detect_business_key_duplicates uses
KeyColumns(config, d) ==
    IF config.business_key_columns = <<>> THEN 1..Min(3, NCols(d))
    ELSE {config.business_key_columns[k] : k \in 1..Len(config.business_key_columns)}
            \cap (1..NCols(d))

\* tuple(data.loc[idx, key_columns].values) as a dict key: a NaN read out of
\* a float column is a fresh float object, equal to no other key's NaN, while
\* the NaN of an object column is the one np.nan object
SameKey(d, cols, i, k) ==
    \/ i = k
    \/ /\ \A j \in cols : d.rows[i][j] = d.rows[k][j]
       /\ \A j \in cols : ~(d.dtypes[j] = "num" /\ IsNa(d.rows[i][j]))

\* key_groups
KeyGroups(d, key_columns, duplicate_indices) ==
    {{k \in duplicate_indices : SameKey(d, key_columns, i, k)} : i \in duplicate_indices}

\* the part of _detect_business_key_duplicates after the choice of columns
BusinessKeyAnalysis(d, key_columns) ==
    MethodAnalysis(RowLabels(d, DuplicatedRows(d, key_columns)),
                   {RowLabels(d, g) :
                       g \in KeyGroups(d, key_columns, DuplicatedRows(d, key_columns))})

\* _detect_business_key_duplicates
DetectBusinessKeyDuplicates(config, d) == BusinessKeyAnalysis(d, KeyColumns(config, d))

\* what a method that did not run leaves in the analysis: {}
NoMethodResult == [duplicate_rows |-> {}, duplicate_groups |-> {}, total_groups |-> 0]

\* the first exception _detect_duplicates raises ("" when none): pandas'
\* hashing of a list cell, the percentage over no rows, data.loc on an
\* aggregated index that is no label of the frame, the recommendations'
\* read of a method or of a pattern analysis that did not run
DuplicatesException(config, d, duplicate_rows) ==
    IF config.exact_matching /\ Unhashable(d, 1..NCols(d))
         THEN "unhashable type: 'list'"
    ELSE IF config.business_key_matching /\ Unhashable(d, KeyColumns(config, d))
         THEN "unhashable type: 'list'"
    ELSE IF NRows(d) = 0 THEN "division by zero"
    ELSE IF config.analyze_duplicate_patterns /\ Unhashable(d, 1..NCols(d))
         THEN "unhashable type: 'list'"
    ELSE IF /\ config.analyze_duplicate_patterns
            /\ "index" \in DOMAIN d
            /\ ~(duplicate_rows \subseteq RowLabels(d, 1..NRows(d)))
         THEN "not in index"
    ELSE IF config.suggest_deduplication
              /\ ~(config.exact_matching /\ config.fuzzy_matching
                     /\ config.business_key_matching)
         THEN "'total_groups'"
    ELSE IF config.suggest_deduplication /\ ~config.analyze_duplicate_patterns
         THEN "'systematic_duplicates'"
    ELSE ""

\* all_duplicate_rows
AllDuplicateRows(exact, fuzzy, bkey) ==
    exact.duplicate_rows \cup fuzzy.duplicate_rows \cup bkey.duplicate_rows

\* the analysis dict, given the methods' results
DuplicatesAnalysis(config, d, exact, fuzzy, bkey) ==
    [exc |-> DuplicatesException(config, d, AllDuplicateRows(exact, fuzzy, bkey)),
     total_rows |-> NRows(d),
     exact_duplicates |-> exact,
     fuzzy_duplicates |-> fuzzy,
     business_key_duplicates |-> bkey,
     all_duplicate_rows |-> AllDuplicateRows(exact, fuzzy, bkey),
     total_duplicate_rows |-> Cardinality(AllDuplicateRows(exact, fuzzy, bkey)),
     duplicate_percentage |-> [num |-> Cardinality(AllDuplicateRows(exact, fuzzy, bkey)),
                               den |-> NRows(d)]]

\* a variant of _detect_duplicates that runs the three methods whatever the
\* toggles say
DetectDuplicatesAllMethods(config, d) ==
    DuplicatesAnalysis(config, d, DetectExactDuplicates(d),
                       DetectFuzzyDuplicates(config, d),
                       DetectBusinessKeyDuplicates(config, d))

\* _detect_duplicates
DetectDuplicates(config, d) ==
    DuplicatesAnalysis(config, d,
        IF config.exact_matching THEN DetectExactDuplicates(d) ELSE NoMethodResult,
        IF config.fuzzy_matching THEN DetectFuzzyDuplicates(config, d) ELSE NoMethodResult,
        IF config.business_key_matching THEN DetectBusinessKeyDuplicates(config, d)
        ELSE NoMethodResult)

\* total_groups of _calculate_quality_score
TotalGroups(analysis) ==
    analysis.exact_duplicates.total_groups
      + analysis.fuzzy_duplicates.total_groups
      + analysis.business_key_duplicates.total_groups

\* _calculate_quality_score
DuplicatesQualityScore(analysis) ==
    Clamp01(ScoreScale
              - (3 * ScoreScale * analysis.total_duplicate_rows)
                    \div (5 * analysis.total_rows)
              - (IF TotalGroups(analysis) > 0
                 THEN Min(ScoreScale \div 5, (ScoreScale * TotalGroups(analysis)) \div 100)
                 ELSE 0))

\* execute after validation: the rest of the try block and the except branch
DuplicatesResult(exception, analysis, elapsed) ==
    IF exception # ""
    THEN ErrorResult("duplicates", elapsed, exception)
    ELSE ScoredResult("duplicates", DuplicatesQualityScore(analysis), elapsed, analysis)

\* execute
DuplicatesExecute(config, d, elapsed) ==
    IF ~DuplicatesValidateConfig(config)
    THEN ErrorResult("duplicates", elapsed, "Invalid configuration")
    ELSE DuplicatesResult(DuplicatesException(config, d,
                              DetectDuplicates(config, d).all_duplicate_rows),
                          DetectDuplicates(config, d), elapsed)

(***************************************************************************)
(* OutliersCheck (checks/outliers.py).  The model covers the three         *)
(* statistical methods; the configurations it draws leave the delegated    *)
(* methods (isolation_forest, local_outlier_factor, dbscan_method) at      *)
(* their default, off.                                                     *)
(***************************************************************************)
OutliersConfig ==
    [enabled |-> TRUE, threshold |-> 80, zscore_method |-> TRUE, iqr_method |-> TRUE,
     modified_zscore |-> TRUE, zscore_threshold |-> 30, iqr_multiplier |-> 15,
     modified_zscore_threshold |-> 35, if_contamination |-> 10,
     lof_contamination |-> 10, analyze_outlier_patterns |-> TRUE,
     suggest_treatment |-> TRUE, max_rows_for_ml |-> 100000,
     use_sampling |-> TRUE, sample_size |-> 10000]

OutliersValidateConfig(config) ==
    IF config.zscore_threshold <= 0 THEN FALSE
    ELSE IF config.iqr_multiplier <= 0 THEN FALSE
    ELSE IF ~(0 < config.if_contamination /\ config.if_contamination < 50) THEN FALSE
    ELSE IF ~(0 < config.lof_contamination /\ config.lof_contamination < 50) THEN FALSE
    ELSE TRUE

\* data.select_dtypes(include=[np.number]).columns
NumericColumns(d) == {j \in 1..NCols(d) : d.dtypes[j] = "num"}

\* the rows of sample_data
OutlierSample(config, d) ==
    IF NRows(d) > config.max_rows_for_ml /\ config.use_sampling
    THEN {SampleRows(d, Min(config.sample_size, NRows(d)))[i] :
             i \in 1..Min(config.sample_size, NRows(d))}
    ELSE 1..NRows(d)

\* data[column].dropna(): the rows of the sample that hold a number
CleanRows(d, rows, j) == {i \in rows : ~IsNa(d.rows[i][j])}

Val(d, i, j) == d.rows[i][j].v

\* a row of rows whose value in column j is the smallest
LeastRow(d, rows, j) == CHOOSE x \in rows : \A y \in rows : Val(d, x, j) <= Val(d, y, j)

\* the values of column j on the given rows in ascending order
RECURSIVE SortedValues(_, _, _)
SortedValues(d, rows, j) ==
    IF rows = {} THEN <<>>
    ELSE <<Val(d, LeastRow(d, rows, j), j)>>
            \o SortedValues(d, rows \ {LeastRow(d, rows, j)}, j)

\* a position of s that holds its smallest element
LeastAt(s) == CHOOSE x \in 1..Len(s) : \A y \in 1..Len(s) : s[x] <= s[y]

\* s without its k-th element
Without(s, k) == [m \in 1..(Len(s) - 1) |-> IF m < k THEN s[m] ELSE s[m + 1]]

RECURSIVE SortInts(_)
SortInts(s) ==
    IF s = <<>> THEN <<>>
    ELSE <<s[LeastAt(s)]>> \o SortInts(Without(s, LeastAt(s)))

SumSquares(s) == SumSeq([k \in 1..Len(s) |-> s[k] * s[k]])

\* |z| > zscore_threshold for the clean rows, with n values of sum S and sum
\* of squares SS: 100 * (n*x - S)^2 > T^2 * (n*SS - S^2); a zero deviation
\* gives NaN scores, which exceed nothing
ZscoreAbove(config, d, clean, j, n, S, SS) ==
    IF n * SS - S * S = 0 THEN {}
    ELSE {i \in clean :
            100 * (n * Val(d, i, j) - S) * (n * Val(d, i, j) - S)
                > config.zscore_threshold * config.zscore_threshold * (n * SS - S * S)}

ZscoreOfValues(config, d, clean, j, vals) ==
    ZscoreAbove(config, d, clean, j, Len(vals), SumSeq(vals), SumSquares(vals))

\* _zscore_outlier_detection on column j, by row
ZscoreOutliers(config, d, rows, j) ==
    ZscoreOfValues(config, d, CleanRows(d, rows, j), j,
                   SortedValues(d, CleanRows(d, rows, j), j))

\* four times the value at rank k + r/4 (ranks from 0)
Interpolate4(sorted, k, r) ==
    IF r = 0 THEN 4 * sorted[k + 1]
    ELSE (4 - r) * sorted[k + 1] + r * sorted[k + 2]

\* 4 * Series.quantile(q4 / 4) of a sorted non-empty sequence (linear
\* interpolation between the two nearest ranks)
Quantile4(sorted, q4) ==
    Interpolate4(sorted, (q4 * (Len(sorted) - 1)) \div 4, (q4 * (Len(sorted) - 1)) % 4)

\* a variant of the bounds test that looks at the upper bound only
IqrAboveUpperBound(config, d, clean, j, Q1, Q3) ==
    {i \in clean : 40 * Val(d, i, j) > 10 * Q3 + config.iqr_multiplier * (Q3 - Q1)}

\* values below Q1 - m*IQR or above Q3 + m*IQR, with Q1 and Q3 four times
\* the quartiles
IqrOutside(config, d, clean, j, Q1, Q3) ==
    {i \in clean :
        \/ 40 * Val(d, i, j) < 10 * Q1 - config.iqr_multiplier * (Q3 - Q1)
        \/ 40 * Val(d, i, j) > 10 * Q3 + config.iqr_multiplier * (Q3 - Q1)}

IqrOfValues(config, d, clean, j, sorted) ==
    IF clean = {} THEN {}
    ELSE IqrOutside(config, d, clean, j, Quantile4(sorted, 1), Quantile4(sorted, 3))

\* _iqr_outlier_detection on column j, by row
IqrOutliers(config, d, rows, j) ==
    IqrOfValues(config, d, CleanRows(d, rows, j), j,
                SortedValues(d, CleanRows(d, rows, j), j))

\* twice the median of a sorted non-empty sequence
Median2(sorted) ==
    IF Len(sorted) % 2 = 1 THEN 2 * sorted[(Len(sorted) + 1) \div 2]
    ELSE sorted[Len(sorted) \div 2] + sorted[Len(sorted) \div 2 + 1]

\* a variant that divides by a MAD of 0 as well: the quotient of a non-zero
\* deviation is infinite and exceeds every threshold, 0/0 exceeds none
ModifiedZscoreDividingByZero(config, d, clean, j, median2, mad4) ==
    IF mad4 = 0 THEN {i \in clean : 2 * Val(d, i, j) # median2}
    ELSE {i \in clean :
            1349 * Abs(2 * Val(d, i, j) - median2)
                > 100 * config.modified_zscore_threshold * mad4}

\* |0.6745 * (x - median) / MAD| > modified_zscore_threshold; with
\* dev2 = 2*|x - median| and mad4 = 4*MAD: 1349 * dev2 > 100 * T * mad4.
\* A MAD of 0 skips the column.
ModifiedZscoreAbove(config, d, clean, j, median2, mad4) ==
    IF mad4 = 0 THEN {}
    ELSE {i \in clean :
            1349 * Abs(2 * Val(d, i, j) - median2)
                > 100 * config.modified_zscore_threshold * mad4}

\* four times the median absolute deviation from the median
Mad4(sorted, median2) ==
    Median2(SortInts([k \in 1..Len(sorted) |-> Abs(2 * sorted[k] - median2)]))

ModifiedZscoreAround(config, d, clean, j, sorted, median2) ==
    ModifiedZscoreAbove(config, d, clean, j, median2, Mad4(sorted, median2))

ModifiedZscoreOfValues(config, d, clean, j, sorted) ==
    IF clean = {} THEN {}
    ELSE ModifiedZscoreAround(config, d, clean, j, sorted, Median2(sorted))

\* _modified_zscore_detection on column j, by row
ModifiedZscoreOutliers(config, d, rows, j) ==
    ModifiedZscoreOfValues(config, d, CleanRows(d, rows, j), j,
                           SortedValues(d, CleanRows(d, rows, j), j))

\* the dict a detection method returns
OutlierMethodResult(outlier_rows) ==
    [outlier_rows |-> outlier_rows, total_outliers |-> Cardinality(outlier_rows)]

\* the methods _detect_outliers runs
MethodsRun(config, d) ==
    IF NumericColumns(d) = {} THEN {}
    ELSE (IF config.zscore_method THEN {"zscore"} ELSE {})
           \cup (IF config.iqr_method THEN {"iqr"} ELSE {})
           \cup (IF config.modified_zscore THEN {"modified_zscore"} ELSE {})

\* outlier_results: one entry per method that ran
OutlierResults(config, d, rows) ==
    [m \in MethodsRun(config, d) |->
        CASE m = "zscore" ->
               OutlierMethodResult(UNION {ZscoreOutliers(config, d, rows, j) :
                                             j \in NumericColumns(d)})
          [] m = "iqr" ->
               OutlierMethodResult(UNION {IqrOutliers(config, d, rows, j) :
                                             j \in NumericColumns(d)})
          [] m = "modified_zscore" ->
               OutlierMethodResult(UNION {ModifiedZscoreOutliers(config, d, rows, j) :
                                             j \in NumericColumns(d)})]

\* all_outlier_rows
AllOutlierRows(outlier_results) ==
    UNION {outlier_results[m].outlier_rows : m \in DOMAIN outlier_results}

\* the analysis dict, given the methods' results.  _analyze_outlier_patterns
\* fills outlier_clusters only when it ran on a non-empty set of outlier
\* rows, and then with the count 0.  A frame of numeric columns and no rows
\* divides by zero in the outlier percentage.
OutliersAnalysis(config, d, outlier_results) ==
    [exc |-> IF NumericColumns(d) # {} /\ NRows(d) = 0 THEN "division by zero" ELSE "",
     total_rows |-> NRows(d),
     numeric_columns |-> NumericColumns(d),
     outlier_results |-> outlier_results,
     all_outlier_rows |-> AllOutlierRows(outlier_results),
     total_outlier_rows |-> Cardinality(AllOutlierRows(outlier_results)),
     has_clusters |-> /\ NumericColumns(d) # {}
                      /\ config.analyze_outlier_patterns
                      /\ AllOutlierRows(outlier_results) # {},
     rows_with_multiple_outliers |-> 0]

\* _detect_outliers
DetectOutliers(config, d) ==
    OutliersAnalysis(config, d, OutlierResults(config, d, OutlierSample(config, d)))

\* methods_with_outliers of _calculate_quality_score
MethodsWithOutliers(analysis) ==
    Cardinality({m \in DOMAIN analysis.outlier_results :
                    analysis.outlier_results[m].total_outliers > 0})

\* _calculate_quality_score
OutliersQualityScore(analysis) ==
    Clamp01(ScoreScale
              - (IF analysis.total_outlier_rows = 0 THEN 0
                 ELSE (2 * ScoreScale * analysis.total_outlier_rows)
                          \div (5 * analysis.total_rows))
              - (IF MethodsWithOutliers(analysis) > 0
                 THEN Min(ScoreScale \div 5,
                          (ScoreScale * MethodsWithOutliers(analysis)) \div 20)
                 ELSE 0)
              - (IF analysis.has_clusters /\ analysis.rows_with_multiple_outliers > 0
                 THEN ScoreScale \div 10 ELSE 0))

\* execute after validation: the rest of the try block and the except branch
OutliersResult(analysis, elapsed) ==
    IF analysis.exc # ""
    THEN ErrorResult("outliers", elapsed, analysis.exc)
    ELSE ScoredResult("outliers", OutliersQualityScore(analysis), elapsed, analysis)

\* execute
OutliersExecute(config, d, elapsed) ==
    IF ~OutliersValidateConfig(config)
    THEN ErrorResult("outliers", elapsed, "Invalid configuration")
    ELSE OutliersResult(DetectOutliers(config, d), elapsed)

(***************************************************************************)
(* QualityCheck (checks/base.py): a check object is its class (kind) and   *)
(* its config.                                                             *)
(***************************************************************************)
Kinds == {"missing_values", "duplicates", "outliers"}

\* validate_config of the check's class
ValidateConfig(chk) ==
    CASE chk.kind = "missing_values" -> MissingValidateConfig(chk.config)
      [] chk.kind = "duplicates"     -> DuplicatesValidateConfig(chk.config)
      [] chk.kind = "outliers"       -> OutliersValidateConfig(chk.config)

\* the message of the exception raised inside execute's try block ("" when
\* the block returns normally)
ExecuteException(chk, d) ==
    CASE ~ValidateConfig(chk) -> "Invalid configuration"
      [] OTHER ->
        CASE chk.kind = "missing_values" ->
                MissingException(AnalyzeMissingValues(chk.config, d))
          [] chk.kind = "duplicates" ->
                DuplicatesException(chk.config, d,
                                    DetectDuplicates(chk.config, d).all_duplicate_rows)
          [] chk.kind = "outliers" ->
                IF NumericColumns(d) # {} /\ NRows(d) = 0 THEN "division by zero" ELSE ""

\* await check.execute(data): execute catches every exception itself, so
\* the call returns a result and raises nothing
Execute(chk, d, elapsed) ==
    [raises |-> "",
     result |-> CASE chk.kind = "missing_values" -> MissingExecute(chk.config, d, elapsed)
                  [] chk.kind = "duplicates"     -> DuplicatesExecute(chk.config, d, elapsed)
                  [] chk.kind = "outliers"       -> OutliersExecute(chk.config, d, elapsed)]

\* a variant of execute that cleans the frame it was handed in place: the
\* rows with a missing cell are dropped from data itself
DataAfterDropnaInPlace(chk, d) ==
    [d EXCEPT !.rows = SelectSeq(d.rows, LAMBDA row : \A j \in 1..Len(row) : ~IsNa(row[j]))]

\* data as the caller finds it after execute(data): the checks read the frame
\* through calls that return new objects (data[column], isna, astype,
\* duplicated, data[mask], loc, iloc, sample, select_dtypes, dropna, fillna,
\* value_counts, apply) and assign to no cell, column or index of it
DataAfterExecute(chk, d) == d

\* the outcome of a call of run: whether an exception left run, how often
\* execute was invoked, the exception execute met inside, the result returned
RunOutcome(execute_calls, exception, result) ==
    [raised |-> FALSE, execute_calls |-> execute_calls,
     exception |-> exception, result |-> result]

\* the try block of run around the call of execute, and its except branch
RunTry(chk, elapsed, call, exception) ==
    IF call.raises = ""
    THEN RunOutcome(1, exception, [call.result EXCEPT !.execution_time = elapsed])
    ELSE RunOutcome(1, call.raises, CheckResult(chk.kind, "error", 0, elapsed, call.raises))

\* a variant of run without the validate_config gate
RunWithoutValidation(chk, d, elapsed) ==
    IF ~chk.config.enabled
    THEN RunOutcome(0, "", CheckResult(chk.kind, "skipped", ScoreScale, 0, ""))
    ELSE RunTry(chk, elapsed, Execute(chk, d, elapsed), ExecuteException(chk, d))

\* a variant of run that validates the configuration before it looks at
\* enabled
RunValidatesFirst(chk, d, elapsed) ==
    IF ~ValidateConfig(chk)
    THEN RunOutcome(0, "", CheckResult(chk.kind, "error", 0, 0, "Invalid configuration"))
    ELSE IF ~chk.config.enabled
    THEN RunOutcome(0, "", CheckResult(chk.kind, "skipped", ScoreScale, 0, ""))
    ELSE RunTry(chk, elapsed, Execute(chk, d, elapsed), ExecuteException(chk, d))

\* run(data); elapsed is the time run measures around execute
Run(chk, d, elapsed) ==
    IF ~chk.config.enabled
    THEN RunOutcome(0, "", CheckResult(chk.kind, "skipped", ScoreScale, 0, ""))
    ELSE IF ~ValidateConfig(chk)
    THEN RunOutcome(0, "", CheckResult(chk.kind, "error", 0, 0, "Invalid configuration"))
    ELSE RunTry(chk, elapsed, Execute(chk, d, elapsed), ExecuteException(chk, d))

(***************************************************************************)
(* The configurations a check is constructed with or updated to: the       *)
(* defaults, the defaults with one setting changed, a disabled check whose *)
(* thresholds are invalid, a method switched off together with the         *)
(* recommendations, and a row ceiling low enough for the long frames to be *)
(* sampled.                                                                *)
(***************************************************************************)
MissingConfigs ==
    LET c == MissingValuesConfig
    IN  {c,
         [c EXCEPT !.enabled = FALSE],
         [c EXCEPT !.missing_threshold = 50, !.critical_threshold = 10],
         [c EXCEPT !.enabled = FALSE, !.missing_threshold = 50, !.critical_threshold = 10],
         [c EXCEPT !.missing_threshold = 0 - 10],
         [c EXCEPT !.critical_threshold = 150],
         [c EXCEPT !.threshold = 150],
         [c EXCEPT !.detect_na_values = FALSE],
         [c EXCEPT !.detect_empty_strings = FALSE],
         [c EXCEPT !.detect_whitespace = FALSE],
         [c EXCEPT !.detect_custom_na = <<>>],
         [c EXCEPT !.analyze_patterns = FALSE],
         [c EXCEPT !.suggest_imputation = FALSE],
         [c EXCEPT !.analyze_patterns = FALSE, !.suggest_imputation = FALSE]}

DuplicatesConfigs ==
    LET c == DuplicatesConfig
    IN  {c,
         [c EXCEPT !.enabled = FALSE],
         [c EXCEPT !.fuzzy_threshold = 150],
         [c EXCEPT !.enabled = FALSE, !.fuzzy_threshold = 150],
         [c EXCEPT !.max_fuzzy_comparisons = 50],
         [c EXCEPT !.max_fuzzy_comparisons = MinFuzzyComparisons],
         [c EXCEPT !.sample_size = 50],
         [c EXCEPT !.fuzzy_threshold = 50],
         [c EXCEPT !.exact_matching = FALSE],
         [c EXCEPT !.fuzzy_matching = FALSE],
         [c EXCEPT !.business_key_matching = FALSE],
         [c EXCEPT !.business_key_columns = <<2>>],
         [c EXCEPT !.analyze_duplicate_patterns = FALSE],
         [c EXCEPT !.suggest_deduplication = FALSE],
         [c EXCEPT !.exact_matching = FALSE, !.suggest_deduplication = FALSE],
         [c EXCEPT !.analyze_duplicate_patterns = FALSE, !.suggest_deduplication = FALSE],
         [c EXCEPT !.business_key_matching = FALSE, !.business_key_columns = <<2>>,
                   !.suggest_deduplication = FALSE]}

OutliersConfigs ==
    LET c == OutliersConfig
    IN  {c,
         [c EXCEPT !.enabled = FALSE],
         [c EXCEPT !.zscore_threshold = 0],
         [c EXCEPT !.enabled = FALSE, !.zscore_threshold = 0],
         [c EXCEPT !.iqr_multiplier = 0],
         [c EXCEPT !.if_contamination = 50],
         [c EXCEPT !.lof_contamination = 0],
         [c EXCEPT !.zscore_method = FALSE],
         [c EXCEPT !.iqr_method = FALSE],
         [c EXCEPT !.modified_zscore = FALSE],
         [c EXCEPT !.iqr_multiplier = 5],
         [c EXCEPT !.modified_zscore_threshold = 0 - 35],
         [c EXCEPT !.analyze_outlier_patterns = FALSE],
         [c EXCEPT !.max_rows_for_ml = MaxRows, !.sample_size = MaxRows,
                   !.iqr_multiplier = 5]}

Configs(kind) ==
    CASE kind = "missing_values" -> MissingConfigs
      [] kind = "duplicates"     -> DuplicatesConfigs
      [] kind = "outliers"       -> OutliersConfigs

(***************************************************************************)
(* DataQualityEngine (core/engine.py).                                     *)
(***************************************************************************)
\* the check types a caller names in an explicit list: two known types and
\* "freshness", a type the engine does not know; the other known types run
\* with the built-in set
TypeNames == {"missing_values", "duplicates", "freshness"}

KnownTypes == {"missing_values", "data_types", "duplicates", "outliers"}

basic_checks == <<"missing_values", "data_types", "duplicates", "outliers">>

\* MissingValuesCheck(), DuplicatesCheck(), OutliersCheck(): config is None
\* and the constructor takes the class's default configuration
DefaultCheck(kind) ==
    [kind |-> kind,
     config |-> CASE kind = "missing_values" -> MissingValuesConfig
                  [] kind = "duplicates"     -> DuplicatesConfig
                  [] kind = "outliers"       -> OutliersConfig]

\* the method of the check object that _execute_check awaits
InvokedMethod(check_type) ==
    IF check_type \in Kinds THEN "execute"
    ELSE IF check_type = "data_types" THEN "placeholder"
    ELSE "none"

\* the try block of _execute_check around the awaited call, and its except
\* branch
ExecuteCheckTry(check_type, call) ==
    IF call.raises = "" THEN <<call.result>>
    ELSE <<CheckResult(check_type, "error", 0, 0, call.raises)>>

\* _execute_check: <<result>>, or <<>> for None
ExecuteCheck(d, check_type, elapsed) ==
    IF check_type \in Kinds
    THEN ExecuteCheckTry(check_type, Execute(DefaultCheck(check_type), d, elapsed))
    ELSE IF check_type = "data_types"
    THEN <<CheckResult("data_types", "passed", (95 * ScoreScale) \div 100, 1, "")>>
    ELSE <<>>

\* a variant of the loop that stops at the first result with status error
RECURSIVE CollectUntilError(_, _, _, _)
CollectUntilError(d, types, elapsed, k) ==
    IF k = 0 THEN <<>>
    ELSE IF \E i \in 1..Len(CollectUntilError(d, types, elapsed, k - 1)) :
               CollectUntilError(d, types, elapsed, k - 1)[i].status = "error"
    THEN CollectUntilError(d, types, elapsed, k - 1)
    ELSE CollectUntilError(d, types, elapsed, k - 1)
            \o ExecuteCheck(d, types[k], elapsed[k])

\* the loop of run_quality_checks over types[1..k]
RECURSIVE CollectResults(_, _, _, _)
CollectResults(d, types, elapsed, k) ==
    IF k = 0 THEN <<>>
    ELSE CollectResults(d, types, elapsed, k - 1)
            \o ExecuteCheck(d, types[k], elapsed[k])

\* check_types or basic_checks: None and the empty list both give the defaults
TypesToRun(req) == IF req.given /\ req.types # <<>> THEN req.types ELSE basic_checks

\* a variant of get_quality_score that averages over the results without
\* status error
MeanOfSuccessful(rs) ==
    IF rs = <<>> THEN [num |-> 0, den |-> 1]
    ELSE [num |-> SumSeq([k \in 1..Len(rs) |-> rs[k].score]),
          den |-> Max(1, Cardinality({k \in 1..Len(rs) : rs[k].status # "error"}))]

\* get_quality_score as the fraction sum(scores) / len(scores)
GetQualityScore(rs) ==
    IF rs = <<>> THEN [num |-> 0, den |-> 1]
    ELSE [num |-> SumSeq([k \in 1..Len(rs) |-> rs[k].score]), den |-> Len(rs)]

CountStatus(rs, status) == Cardinality({k \in 1..Len(rs) : rs[k].status = status})

\* get_summary
GetSummary(rs) ==
    IF rs = <<>> THEN [message |-> "No quality checks have been run"]
    ELSE [total_checks |-> Len(rs),
          passed |-> CountStatus(rs, "passed"),
          failed |-> CountStatus(rs, "failed"),
          warnings |-> CountStatus(rs, "warning"),
          overall_score |-> GetQualityScore(rs),
          execution_time |-> SumSeq([k \in 1..Len(rs) |-> rs[k].execution_time])]

(***************************************************************************)
(* Tuples of the state variables, the requests and the initial state.      *)
(***************************************************************************)
vars == <<data, check, outcome, previous, results, requested, returned, invoked, summary,
          active_timers, metrics, lock, threads>>

checkVars == <<check, outcome, previous>>

engineVars == <<results, requested, returned, invoked, summary>>

monitorVars == <<active_timers, metrics, lock, threads>>

\* the threads that share one PerformanceMonitor
Threads == {1, 2}

\* the timer names they use; the metrics are f"{name}_duration" of each
\* timer and a custom metric, each an empty deque until it is written
TimerNames == {"load", "check"}

\* a thread outside the monitor, op being the call it made last and ret what
\* that call returned (<<>> for None, <<x>> for x)
Returned(op, ret) ==
    [pc |-> "idle", op |-> op, frame |-> "", name |-> "", metric |-> <<>>,
     value |-> 0, ret |-> ret]

Requests ==
    {[given |-> FALSE, types |-> <<>>]}
      \cup {[given |-> TRUE, types |-> s] : s \in SeqsUpTo(TypeNames, MaxTypes)}

\* the datasets handed to the engine: a frame of no rows, a frame with a
\* list cell and missing cells, a frame with duplicated rows and a missing
\* cell
EngineDataSets ==
    {[dtypes |-> <<"obj">>, rows |-> <<>>],
     [dtypes |-> <<"obj">>, rows |-> << <<Lst>>, <<NaN>>, <<NaN>> >>],
     [dtypes |-> <<"obj", "num">>,
      rows |-> << <<Str(<<"a">>), Num(1)>>, <<Str(<<"a">>), Num(1)>>, <<NaN, Num(1)>> >>]}

InitVars ==
    /\ check = <<>>
    /\ outcome = <<>>
    /\ previous = <<>>
    /\ results = <<>>
    /\ requested = <<>>
    /\ returned = <<>>
    /\ invoked = <<>>
    /\ summary = <<>>
    /\ active_timers = <<>>
    /\ metrics = [m \in {<<name, "_duration">> : name \in TimerNames} \cup {<<"rows">>} |->
                      <<>>]
    /\ lock = FALSE
    /\ threads = [t \in Threads |-> Returned("", <<>>)]

(***************************************************************************)
(* A check object run on a dataset.                                        *)
(***************************************************************************)
InitCheck == data \in DataSets /\ InitVars

\* SomeCheck(config): the constructor of the check under test; the object is
\* constructed once and reconfigured with update_config
NewCheck(kind, config) ==
    /\ check = <<>>
    /\ check' = <<[kind |-> kind, config |-> config]>>
    /\ outcome' = <<>>
    /\ previous' = <<>>
    /\ UNCHANGED <<data, engineVars, monitorVars>>

\* check.update_config(**kwargs): every named attribute the configuration
\* has is set, without validation; what was observed of the check as it was
\* configured before is dropped
UpdateConfig(config) ==
    /\ check # <<>>
    /\ check' = <<[check[1] EXCEPT !.config = config]>>
    /\ outcome' = <<>>
    /\ previous' = <<>>
    /\ UNCHANGED <<data, engineVars, monitorVars>>

\* await check.run(data); previous keeps the result of the run before, less
\* its execution time
RunCheck(elapsed) ==
    /\ check # <<>>
    /\ outcome' = <<Run(check[1], data, elapsed)>>
    /\ previous' = IF outcome = <<>> THEN <<>>
                   ELSE <<[outcome[1].result EXCEPT !.execution_time = 0]>>
    /\ data' = IF outcome'[1].execute_calls = 1
               THEN DataAfterExecute(check[1], data) ELSE data
    /\ UNCHANGED <<check, engineVars, monitorVars>>

NextCheck ==
    \/ \E kind \in Kinds : \E config \in Configs(kind) : NewCheck(kind, config)
    \/ \E kind \in Kinds : \E config \in Configs(kind) :
          check # <<>> /\ check[1].kind = kind /\ UpdateConfig(config)
    \/ \E elapsed \in 0..MaxElapsed : RunCheck(elapsed)

SpecCheck == InitCheck /\ [][NextCheck]_vars

(***************************************************************************)
(* An engine called on a dataset.                                          *)
(***************************************************************************)
Init == data \in EngineDataSets /\ InitVars

\* the end of run_quality_checks: self.results.extend(results); return results
ExtendResults(new) ==
    /\ results' = results \o new
    /\ returned' = new

\* await engine.run_quality_checks(data, check_types); the loop appends at
\* most one result per type, so the guard keeps self.results within
\* MaxResults
RunQualityChecks(req, elapsed) ==
    /\ requested' = <<req>>
    /\ summary' = <<>>
    /\ IF IsEmptyFrame(data)
       THEN /\ returned' = <<>>
            /\ invoked' = <<>>
            /\ UNCHANGED results
       ELSE /\ Len(results) + Len(TypesToRun(req)) <= MaxResults
            /\ ExtendResults(CollectResults(data, TypesToRun(req), elapsed,
                                           Len(TypesToRun(req))))
            /\ invoked' = [k \in 1..Len(TypesToRun(req)) |->
                              InvokedMethod(TypesToRun(req)[k])]
    /\ UNCHANGED <<data, checkVars, monitorVars>>

\* engine.get_summary()
CallGetSummary ==
    /\ summary' = <<GetSummary(results)>>
    /\ UNCHANGED <<data, checkVars, results, requested, returned, invoked, monitorVars>>

\* await engine.cleanup()
Cleanup ==
    /\ results' = <<>>
    /\ summary' = <<>>
    /\ UNCHANGED <<data, checkVars, requested, returned, invoked, monitorVars>>

Next ==
    \/ \E req \in Requests : \E elapsed \in 0..MaxElapsed :
          RunQualityChecks(req, [k \in 1..Len(TypesToRun(req)) |-> elapsed])
    \/ CallGetSummary
    \/ Cleanup

Spec == Init /\ [][Next]_vars

(***************************************************************************)
(* Threads calling one PerformanceMonitor.                                 *)
(*                                                                         *)
(* A thread is idle or inside a call op(name); frame is the method it is   *)
(* executing (record_metric inside stop_timer is a nested frame), pc is    *)
(* "lock" while it waits at `with self._lock` and "body" while it runs     *)
(* the block under the lock.                                               *)
(* time.time() returns a tick in 0..MaxElapsed, never less than a time     *)
(* read before it.  A deque keeps its last MaxHistory entries.             *)
(***************************************************************************)
InitMonitor == data = [dtypes |-> <<"obj">>, rows |-> <<>>] /\ InitVars

\* thread t enters start_timer(name), stop_timer(name) or
\* record_metric(metric, value); record_metric builds the metric first and
\* then comes to its lock
Call(t, op, name, metric, value) ==
    /\ threads[t].pc = "idle"
    /\ threads' = [threads EXCEPT ![t] =
                      [pc |-> "lock", op |-> op, frame |-> op, name |-> name,
                       metric |-> metric, value |-> value, ret |-> <<>>]]
    /\ UNCHANGED <<active_timers, metrics, lock>>
    /\ UNCHANGED <<data, checkVars, engineVars>>

\* `with self._lock:` a threading.Lock is taken only while nobody holds it,
\* the thread asking for it included
AcquireLock(t) ==
    /\ threads[t].pc = "lock"
    /\ ~lock
    /\ lock' = TRUE
    /\ threads' = [threads EXCEPT ![t].pc = "body"]
    /\ UNCHANGED <<active_timers, metrics>>
    /\ UNCHANGED <<data, checkVars, engineVars>>

\* the block of start_timer: store the time, leave the block, return None
StartTimerLocked(t) ==
    /\ threads[t].pc = "body"
    /\ threads[t].frame = "start_timer"
    /\ \E now \in 0..MaxElapsed :
          active_timers' = [n \in DOMAIN active_timers \cup {threads[t].name} |->
                               IF n = threads[t].name THEN now ELSE active_timers[n]]
    /\ lock' = FALSE
    /\ threads' = [threads EXCEPT ![t] = Returned("start_timer", <<>>)]
    /\ UNCHANGED metrics
    /\ UNCHANGED <<data, checkVars, engineVars>>

\* the block of stop_timer: an unknown timer returns None; a known one is
\* popped and record_metric is called from inside the block, the lock still
\* held
StopTimerLocked(t) ==
    /\ threads[t].pc = "body"
    /\ threads[t].frame = "stop_timer"
    /\ IF threads[t].name \notin DOMAIN active_timers
       THEN /\ lock' = FALSE
            /\ threads' = [threads EXCEPT ![t] = Returned("stop_timer", <<>>)]
            /\ UNCHANGED active_timers
       ELSE /\ active_timers' = [n \in DOMAIN active_timers \ {threads[t].name} |->
                                    active_timers[n]]
            /\ \E now \in active_timers[threads[t].name]..MaxElapsed :
                  threads' = [threads EXCEPT
                                 ![t].pc = "lock",
                                 ![t].frame = "record_metric",
                                 ![t].metric = <<threads[t].name, "_duration">>,
                                 ![t].value = now - active_timers[threads[t].name]]
            /\ UNCHANGED lock
    /\ UNCHANGED metrics
    /\ UNCHANGED <<data, checkVars, engineVars>>

\* the block of record_metric: append to the deque and leave the block.  A
\* direct call returns None.  In a call nested in stop_timer, stop_timer goes
\* on: it leaves its own block, releasing a lock that is not held any more,
\* and that raises RuntimeError
RecordMetricLocked(t) ==
    /\ threads[t].pc = "body"
    /\ threads[t].frame = "record_metric"
    /\ metrics' = [metrics EXCEPT ![threads[t].metric] =
                      IF Len(@) < MaxHistory THEN Append(@, threads[t].value)
                      ELSE Append(Tail(@), threads[t].value)]
    /\ lock' = FALSE
    /\ threads' = [threads EXCEPT ![t] =
                      IF threads[t].op = "stop_timer"
                      THEN Returned("stop_timer", <<"RuntimeError">>)
                      ELSE Returned("record_metric", <<>>)]
    /\ UNCHANGED active_timers
    /\ UNCHANGED <<data, checkVars, engineVars>>

NextMonitor ==
    \/ \E t \in Threads : \E name \in TimerNames :
          Call(t, "start_timer", name, <<>>, 0)
    \/ \E t \in Threads : \E name \in TimerNames :
          Call(t, "stop_timer", name, <<>>, 0)
    \/ \E t \in Threads : \E value \in 0..MaxElapsed :
          Call(t, "record_metric", "", <<"rows">>, value)
    \/ \E t \in Threads : AcquireLock(t)
    \/ \E t \in Threads : StartTimerLocked(t)
    \/ \E t \in Threads : StopTimerLocked(t)
    \/ \E t \in Threads : RecordMetricLocked(t)

\* a thread inside a block goes on running, and a thread waiting for the lock
\* gets it if the lock is free again and again; callers are free to call or
\* not
SpecMonitor ==
    /\ InitMonitor
    /\ [][NextMonitor]_vars
    /\ \A t \in Threads :
          /\ SF_vars(AcquireLock(t))
          /\ WF_vars(StartTimerLocked(t))
          /\ WF_vars(StopTimerLocked(t))
          /\ WF_vars(RecordMetricLocked(t))

C2_InvalidConfigIsError ==
    (outcome # <<>> /\ check[1].config.enabled /\ ~ValidateConfig(check[1])) =>
        /\ outcome[1].result.status = "error"
        /\ outcome[1].result.score = 0
        /\ outcome[1].execute_calls = 0

\* a run of an enabled check with an invalid configuration
C2_InvalidConfigRun ==
    /\ outcome # <<>>
    /\ check[1].config.enabled
    /\ ~ValidateConfig(check[1])

\* C3: for a check with enabled=false, whether or not the rest of the
\* configuration is valid, run returns status skipped with score 1.0 and
\* execute is not invoked.
C3_DisabledIsSkipped ==
    (outcome # <<>> /\ ~check[1].config.enabled) =>
        /\ outcome[1].result.status = "skipped"
        /\ outcome[1].result.score = ScoreScale
        /\ outcome[1].execute_calls = 0

\* a run of a disabled check whose configuration is invalid
C3_DisabledInvalidRun ==
    /\ outcome # <<>>
    /\ ~check[1].config.enabled
    /\ ~ValidateConfig(check[1])

\* C10: a result one of the three checks computes without error has a
\* score in [0,1] and the status its score fixes: passed iff score >= 0.9,
\* warning iff 0.7 <= score < 0.9, failed iff 0.5 <= score < 0.7, critical
\* iff score < 0.5.
C10_StatusFixedByScore ==
    (outcome # <<>> /\ outcome[1].execute_calls = 1
        /\ outcome[1].result.status # "error") =>
        /\ 0 <= outcome[1].result.score
        /\ outcome[1].result.score <= ScoreScale
        /\ outcome[1].result.status \in {"passed", "warning", "failed", "critical"}
        /\ outcome[1].result.status = "passed"
              <=> 10 * outcome[1].result.score >= 9 * ScoreScale
        /\ outcome[1].result.status = "warning"
              <=> /\ 10 * outcome[1].result.score >= 7 * ScoreScale
                  /\ 10 * outcome[1].result.score < 9 * ScoreScale
        /\ outcome[1].result.status = "failed"
              <=> /\ 10 * outcome[1].result.score >= 5 * ScoreScale
                  /\ 10 * outcome[1].result.score < 7 * ScoreScale
        /\ outcome[1].result.status = "critical"
              <=> 10 * outcome[1].result.score < 5 * ScoreScale

\* a result computed without error whose score is exactly 0.9
C10_ScoreAtCutPoint ==
    /\ outcome # <<>>
    /\ outcome[1].execute_calls = 1
    /\ outcome[1].result.status = "passed"
    /\ 10 * outcome[1].result.score = 9 * ScoreScale

(***************************************************************************)
(* Properties of DataQualityEngine, checked under Spec.                    *)
(***************************************************************************)
\* the types a call asks for: check_types, or the built-in set for None
RequestedTypes(req) == IF req.given THEN req.types ELSE basic_checks

IsKnownType(t) == t \in KnownTypes

\* the check of type t fails internally on the engine's dataset
FailsInternally(t) == t \in Kinds /\ ExecuteException(DefaultCheck(t), data) # ""

\* C4: in a run over a non-empty dataset in which a requested check fails
\* internally, the call returns, the failed check is reported as a result
\* with status error and score 0.0, and every other requested known type
\* has its result in the returned list.
C4_FailureDoesNotAbortRun ==
    (/\ requested # <<>>
     /\ ~IsEmptyFrame(data)
     /\ \E k \in 1..Len(RequestedTypes(requested[1])) :
           FailsInternally(RequestedTypes(requested[1])[k])) =>
        \A k \in 1..Len(RequestedTypes(requested[1])) :
            IsKnownType(RequestedTypes(requested[1])[k]) =>
                \E i \in 1..Len(returned) :
                    /\ returned[i].check_type = RequestedTypes(requested[1])[k]
                    /\ FailsInternally(RequestedTypes(requested[1])[k]) =>
                          /\ returned[i].status = "error"
                          /\ returned[i].score = 0

\* a call of two requested checks, the first of which failed internally
\* and the second of which is reported after it without error
C4_ErrorThenResult ==
    /\ requested # <<>>
    /\ requested[1].given
    /\ Len(requested[1].types) = 2
    /\ FailsInternally(requested[1].types[1])
    /\ Len(returned) = 2
    /\ returned[1].status = "error"
    /\ returned[2].check_type = requested[1].types[2]
    /\ returned[2].status # "error"

\* C5: the engine runs every requested known check through the check's
\* run() wrapper and never awaits execute() directly.
C5_ChecksRunThroughWrapper ==
    \A k \in 1..Len(invoked) : invoked[k] # "execute"

\* C6: for a non-empty dataset and any list of requested types, the
\* returned list holds exactly one result per requested known type, in the
\* order requested; an unknown type contributes nothing.
C6_OneResultPerKnownType ==
    (requested # <<>> /\ requested[1].given /\ ~IsEmptyFrame(data)) =>
        /\ Len(returned) = Len(SelectSeq(requested[1].types, IsKnownType))
        /\ \A k \in 1..Len(returned) :
              returned[k].check_type = SelectSeq(requested[1].types, IsKnownType)[k]

\* C7: get_summary() aggregates only the results of the most recent
\* run_quality_checks call: total_checks is the length of the list that
\* call returned.
C7_SummaryOfLastCall ==
    (summary # <<>> /\ requested # <<>> /\ "total_checks" \in DOMAIN summary[1]) =>
        summary[1].total_checks = Len(returned)

\* C8: the per-status counts get_summary() reports sum to total_checks,
\* whatever the statuses of the results.
C8_CountsSumToTotal ==
    (summary # <<>> /\ "total_checks" \in DOMAIN summary[1]) =>
        summary[1].passed + summary[1].failed + summary[1].warnings
            = summary[1].total_checks

\* C9: when at least one result has been collected, overall_score is the
\* arithmetic mean of the scores of the summarised results (an error result
\* counting with 0.0) and execution_time is the sum of their execution
\* times.
C9_MeanScoreAndTotalTime ==
    (summary # <<>> /\ results # <<>>) =>
        /\ "overall_score" \in DOMAIN summary[1]
        /\ summary[1].overall_score.den > 0
        /\ summary[1].overall_score.num * Len(results)
              = summary[1].overall_score.den
                  * SumSeq([k \in 1..Len(results) |-> results[k].score])
        /\ summary[1].execution_time
              = SumSeq([k \in 1..Len(results) |-> results[k].execution_time])

\* a summary over results of which one has status error and one a positive
\* score and a positive execution time
C9_SummaryWithErrorResult ==
    /\ summary # <<>>
    /\ \E i \in 1..Len(results) : results[i].status = "error" /\ results[i].score = 0
    /\ \E i \in 1..Len(results) : results[i].score > 0 /\ results[i].execution_time > 0
    /\ summary[1].execution_time > 1

(***************************************************************************)
(* Properties of the three checks, checked under SpecCheck.                *)
(***************************************************************************)
\* the last run executed the check of this kind and built a scored result
Scored(kind) ==
    /\ outcome # <<>>
    /\ check[1].kind = kind
    /\ outcome[1].execute_calls = 1
    /\ outcome[1].result.status # "error"

Neighbours(pairs, S) ==
    {p[2] : p \in {q \in pairs : q[1] \in S}}
      \cup {p[1] : p \in {q \in pairs : q[2] \in S}}

\* the rows a chain of pairs links to a row of S
RECURSIVE ChainFrom(_, _)
ChainFrom(pairs, S) ==
    IF Neighbours(pairs, S) \subseteq S THEN S
    ELSE ChainFrom(pairs, S \cup Neighbours(pairs, S))

\* groups are the connected components of the graph of pairs
AreComponents(groups, pairs) ==
    /\ \A g \in groups : Cardinality(g) > 1 /\ \A a \in g : g = ChainFrom(pairs, {a})
    /\ \A a \in GraphNodes(pairs) : ChainFrom(pairs, {a}) \in groups
    /\ \A g \in groups : \A h \in groups : g # h => g \cap h = {}
    /\ UNION groups = GraphNodes(pairs)

\* C13: the fuzzy duplicate groups are exactly the connected components of
\* size greater than 1 of the undirected graph of the qualifying pairs: two
\* rows share a group iff a chain of qualifying pairs links them, the groups
\* are pairwise disjoint, and a row in no qualifying pair is in no group.
C13_GroupsAreComponents ==
    (Scored("duplicates") /\ check[1].config.fuzzy_matching) =>
        AreComponents(outcome[1].result.analysis.fuzzy_duplicates.duplicate_groups,
                      outcome[1].result.analysis.fuzzy_duplicates.duplicate_pairs)

\* a fuzzy group that holds two rows which are no qualifying pair
\* themselves: a chain links them
C13_ChainInGroup ==
    /\ Scored("duplicates")
    /\ check[1].config.fuzzy_matching
    /\ \E g \in outcome[1].result.analysis.fuzzy_duplicates.duplicate_groups :
          \E a \in g : \E b \in g :
              /\ a < b
              /\ <<a, b>> \notin outcome[1].result.analysis.fuzzy_duplicates.duplicate_pairs

\* rows i and k of the dataset are equal in every column
EqualRows(i, k) == data.rows[i] = data.rows[k]

\* C14: exact detection flags exactly the rows that have another row equal
\* to them in every column, and its groups partition the flagged rows by
\* content: two flagged rows are in the same group iff they are equal in
\* every column, and every group has more than one member.
C14_ExactGroupsByContent ==
    (Scored("duplicates") /\ check[1].config.exact_matching) =>
        LET exact == outcome[1].result.analysis.exact_duplicates
            equal == {i \in 1..NRows(data) :
                         \E k \in 1..NRows(data) : k # i /\ EqualRows(i, k)}
        IN  /\ exact.duplicate_rows = RowLabels(data, equal)
            /\ \A g \in exact.duplicate_groups : Cardinality(g) > 1
            /\ UNION exact.duplicate_groups = exact.duplicate_rows
            /\ \A i \in equal : \A k \in equal :
                  (\E g \in exact.duplicate_groups :
                       RowLabels(data, {i, k}) \subseteq g)
                      <=> EqualRows(i, k)

\* the rows the enabled methods flagged, each method taken by itself
FlaggedByEnabled(config, analysis) ==
    (IF config.exact_matching
     THEN RowLabels(data, DuplicatedRows(data, 1..NCols(data))) ELSE {})
      \cup (IF config.fuzzy_matching
            THEN GraphNodes(analysis.fuzzy_duplicates.duplicate_pairs) ELSE {})
      \cup (IF config.business_key_matching
            THEN RowLabels(data, DuplicatedRows(data, KeyColumns(config, data)))
            ELSE {})

\* C15: the duplicate row-set is the union of the row indices flagged by
\* the enabled methods only, total_duplicate_rows is the size of that union,
\* and duplicate_percentage is that size divided by the row count.
C15_UnionOfEnabledMethods ==
    Scored("duplicates") =>
        LET analysis == outcome[1].result.analysis
            config == check[1].config
        IN  /\ analysis.all_duplicate_rows = FlaggedByEnabled(config, analysis)
            /\ ~config.exact_matching =>
                  analysis.exact_duplicates.duplicate_rows = {}
            /\ ~config.fuzzy_matching =>
                  analysis.fuzzy_duplicates.duplicate_rows = {}
            /\ ~config.business_key_matching =>
                  analysis.business_key_duplicates.duplicate_rows = {}
            /\ analysis.total_duplicate_rows
                  = Cardinality(FlaggedByEnabled(config, analysis))
            /\ analysis.duplicate_percentage.den > 0
            /\ analysis.duplicate_percentage.num * NRows(data)
                  = Cardinality(FlaggedByEnabled(config, analysis))
                      * analysis.duplicate_percentage.den

\* a scored result of a check whose business-key method is switched off, on
\* a frame in which that method would have flagged rows that no enabled
\* method flags
C15_DisabledMethodWouldFlag ==
    /\ Scored("duplicates")
    /\ ~check[1].config.business_key_matching
    /\ check[1].config.exact_matching
    /\ check[1].config.fuzzy_matching
    /\ RowLabels(data, DuplicatedRows(data, KeyColumns(check[1].config, data)))
          \ outcome[1].result.analysis.all_duplicate_rows # {}

\* a frame DuplicatesCheck can hash: at least one row and no list cell
PlainFrame ==
    /\ NRows(data) > 0
    /\ \A i \in 1..NRows(data) : \A j \in 1..NCols(data) :
          data.rows[i][j].kind # "list"

\* C16: the exact, fuzzy and business-key toggles are independent: for
\* every subset of the three methods that is enabled, the other settings at
\* their defaults, DuplicatesCheck completes with a status other than error
\* and a disabled method contributes no flagged rows and no groups.
C16_TogglesAreIndependent ==
    (/\ outcome # <<>>
     /\ check[1].kind = "duplicates"
     /\ [check[1].config EXCEPT !.exact_matching = TRUE, !.fuzzy_matching = TRUE,
                                !.business_key_matching = TRUE] = DuplicatesConfig
     /\ PlainFrame) =>
        /\ outcome[1].result.status # "error"
        /\ ~check[1].config.exact_matching =>
              /\ outcome[1].result.analysis.exact_duplicates.duplicate_rows = {}
              /\ outcome[1].result.analysis.exact_duplicates.duplicate_groups = {}
        /\ ~check[1].config.fuzzy_matching =>
              /\ outcome[1].result.analysis.fuzzy_duplicates.duplicate_rows = {}
              /\ outcome[1].result.analysis.fuzzy_duplicates.duplicate_groups = {}
        /\ ~check[1].config.business_key_matching =>
              /\ outcome[1].result.analysis.business_key_duplicates.duplicate_rows = {}
              /\ outcome[1].result.analysis.business_key_duplicates.duplicate_groups = {}

\* the columns in which rows i and k both hold a missing value
BothMissing(i, k) ==
    {j \in 1..NCols(data) : IsNa(data.rows[i][j]) /\ IsNa(data.rows[k][j])}

\* C17: in the fuzzy row similarity a column in which both rows hold a
\* missing value contributes 0.0 to the mean: the similarity of a pair is at
\* most the share of its other columns, so a pair qualifies only if that
\* share reaches fuzzy_threshold.
C17_BothMissingIsDissimilar ==
    (Scored("duplicates") /\ check[1].config.fuzzy_matching) =>
        \A p \in outcome[1].result.analysis.fuzzy_duplicates.duplicate_pairs :
            100 * (NCols(data) - Cardinality(BothMissing(p[1], p[2])))
                >= check[1].config.fuzzy_threshold * NCols(data)

\* the number of cells of column j that are the empty string
EmptyStrings(j) ==
    Cardinality({i \in 1..NRows(data) : data.rows[i][j] = Str(<<>>)})

\* a cell that no detection method takes for missing
Ordinary(cell) ==
    /\ cell.kind \in {"str", "num"}
    /\ ~IsBlank(cell)
    /\ \A k \in 1..Len(DefaultCustomNa) : ~EqualsStr(cell, DefaultCustomNa[k])

\* C18: for a one-column dataset of n rows in which exactly k cells are the
\* empty string and the others are ordinary non-missing values, the check
\* with detect_empty_strings=True and detect_na_values=False (all other
\* settings at their defaults) reports missing_counts[col] = k and overall
\* missing fraction k/n.
C18_EmptyStringsCountedOnce ==
    (/\ Scored("missing_values")
     /\ check[1].config = [MissingValuesConfig EXCEPT !.detect_na_values = FALSE]
     /\ NCols(data) = 1
     /\ \A i \in 1..NRows(data) :
           data.rows[i][1] = Str(<<>>) \/ Ordinary(data.rows[i][1])) =>
        /\ outcome[1].result.analysis.missing_counts[1] = EmptyStrings(1)
        /\ outcome[1].result.analysis.total_missing = EmptyStrings(1)

\* the number of enabled detection methods that match a cell: standard
\* null, empty string, whitespace-only, and each configured sentinel token
MethodsMatching(config, cell) ==
    (IF config.detect_na_values /\ IsNa(cell) THEN 1 ELSE 0)
      + (IF config.detect_empty_strings /\ cell = Str(<<>>) THEN 1 ELSE 0)
      + (IF config.detect_whitespace /\ IsBlank(cell) THEN 1 ELSE 0)
      + Cardinality({k \in 1..Len(config.detect_custom_na) :
                        cell = Str(config.detect_custom_na[k])})

\* C19: missing-value counting is additive over the enabled detection
\* methods: a column's missing count is the sum over its cells of the number
\* of enabled methods that match the cell, so a cell matching m enabled
\* methods adds m and the count can exceed the number of rows.
C19_CountIsAdditive ==
    Scored("missing_values") =>
        \A j \in 1..NCols(data) :
            outcome[1].result.analysis.missing_counts[j]
                = SumSeq([i \in 1..NRows(data) |->
                            MethodsMatching(check[1].config, data.rows[i][j])])

\* a scored result in which a column's missing count exceeds the number of
\* rows
C19_CountExceedsRows ==
    /\ Scored("missing_values")
    /\ \E j \in 1..NCols(data) :
          outcome[1].result.analysis.missing_counts[j] > NRows(data)

\* ten times rows*columns times the unclamped score of C20
RawMissingScore(analysis) ==
    10 * NRows(data) * NCols(data)
      - 5 * SumSeq(analysis.missing_counts)
      - 2 * NRows(data)
          * Cardinality({j \in 1..NCols(data) : analysis.missing_counts[j] > 0})
      - (IF analysis.systematic_missing THEN NRows(data) * NCols(data) ELSE 0)

\* C20: the MissingValuesCheck score equals
\* 1 - 0.5*overall_missing_fraction - 0.2*(columns_with_missing/total_columns)
\* - 0.1 if a systematic pattern is present, clamped to [0,1], where
\* overall_missing_fraction is the total of the per-column missing counts
\* divided by rows*columns.
C20_MissingScoreFormula ==
    Scored("missing_values") =>
        outcome[1].result.score * 10 * NRows(data) * NCols(data)
            = ScoreScale
                * Max(0, Min(10 * NRows(data) * NCols(data),
                             RawMissingScore(outcome[1].result.analysis)))

\* a scored result whose unclamped score is negative
C20_ClampedAtZero ==
    /\ Scored("missing_values")
    /\ RawMissingScore(outcome[1].result.analysis) < 0
    /\ outcome[1].result.score = 0

(***************************************************************************)
(* Properties of the outlier methods and of the configurations, checked    *)
(* under SpecCheck.                                                        *)
(***************************************************************************)
\* the value of row i in column j lies outside the bounds that the quartiles
\* of the non-missing values of the rows and the multiplier give
OutsideIqrBounds(config, rows, i, j) ==
    LET sorted == SortedValues(data, CleanRows(data, rows, j), j)
        Q1 == Quantile4(sorted, 1)
        Q3 == Quantile4(sorted, 3)
    IN  \/ 40 * Val(data, i, j) < 10 * Q1 - config.iqr_multiplier * (Q3 - Q1)
        \/ 40 * Val(data, i, j) > 10 * Q3 + config.iqr_multiplier * (Q3 - Q1)

\* the frame of the one column 1, 2, 3, 4, 5, 100
IsQuartileExample == NRows(data) = 6 /\ NCols(data) = 1

\* C21: the IQR method flags a non-missing value of a numeric column iff it
\* is below Q1 - k*IQR or above Q3 + k*IQR for the column's quartiles and the
\* multiplier k, and never flags a missing value; on the column 1, 2, 3, 4,
\* 5, 100 with k = 1.5 it flags 100 and nothing else.
C21_IqrFlagsOutsideBounds ==
    (Scored("outliers") /\ check[1].config.iqr_method /\ NumericColumns(data) # {}) =>
        LET config == check[1].config
            rows == OutlierSample(config, data)
            flagged == outcome[1].result.analysis.outlier_results["iqr"].outlier_rows
        IN  /\ \A i \in 1..NRows(data) :
                  i \in flagged <=>
                      /\ i \in rows
                      /\ \E j \in NumericColumns(data) :
                            /\ ~IsNa(data.rows[i][j])
                            /\ OutsideIqrBounds(config, rows, i, j)
            /\ flagged \subseteq 1..NRows(data)
            /\ (IsQuartileExample /\ config.iqr_multiplier = 15 /\ rows = 1..6) =>
                  flagged = {6}

\* the IQR method run on a column that holds a missing cell and a value
\* below the lower bound
C21_FlaggedBelowNextToMissing ==
    /\ Scored("outliers")
    /\ check[1].config.iqr_method
    /\ OutlierSample(check[1].config, data) = 1..NRows(data)
    /\ NumericColumns(data) # {}
    /\ \E i \in outcome[1].result.analysis.outlier_results["iqr"].outlier_rows :
          \E k \in 1..NRows(data) : \E j \in NumericColumns(data) :
              /\ IsNa(data.rows[k][j])
              /\ ~IsNa(data.rows[i][j])
              /\ \E m \in 1..NRows(data) :
                    ~IsNa(data.rows[m][j]) /\ Val(data, i, j) < Val(data, m, j)

\* more than half of the non-missing values of column j on the rows are one
\* and the same value: the median absolute deviation of the column is 0
MadIsZero(rows, j) ==
    \E a \in CleanRows(data, rows, j) :
        2 * Cardinality({i \in CleanRows(data, rows, j) :
                            Val(data, i, j) = Val(data, a, j)})
            > Cardinality(CleanRows(data, rows, j))

\* C22: in the modified z-score method a numeric column whose median
\* absolute deviation is 0 is skipped: it yields no outliers from this
\* method and no error, and the other columns are still analysed.
C22_ZeroMadColumnSkipped ==
    (/\ outcome # <<>>
     /\ check[1].kind = "outliers"
     /\ outcome[1].execute_calls = 1
     /\ check[1].config.modified_zscore
     /\ NumericColumns(data) # {}
     /\ NRows(data) > 0) =>
        LET config == check[1].config
            rows == OutlierSample(config, data)
        IN  /\ outcome[1].result.status # "error"
            /\ outcome[1].result.analysis.outlier_results["modified_zscore"].outlier_rows
                  = UNION {ModifiedZscoreOutliers(config, data, rows, j) :
                              j \in {k \in NumericColumns(data) : ~MadIsZero(rows, k)}}
            /\ (\A j \in NumericColumns(data) :
                    CleanRows(data, rows, j) # {} => MadIsZero(rows, j)) =>
                  outcome[1].result.analysis.outlier_results["modified_zscore"].outlier_rows
                      = {}

\* a frame of two numeric columns: one has a median absolute deviation of
\* 0, the other one yields an outlier
C22_OtherColumnAnalysed ==
    /\ Scored("outliers")
    /\ check[1].config.modified_zscore
    /\ \E j \in NumericColumns(data) : \E k \in NumericColumns(data) :
          /\ j # k
          /\ MadIsZero(1..NRows(data), j)
          /\ ~MadIsZero(1..NRows(data), k)
    /\ outcome[1].result.analysis.outlier_results["modified_zscore"].outlier_rows # {}

\* some row carries more than one outlier finding: two methods flagged it
SeveralFindingsInARow(analysis) ==
    \E m \in DOMAIN analysis.outlier_results :
        \E n \in DOMAIN analysis.outlier_results :
            /\ m # n
            /\ analysis.outlier_results[m].outlier_rows
                  \cap analysis.outlier_results[n].outlier_rows # {}

\* the rows flagged by the methods that ran
FlaggedByMethods(analysis) ==
    UNION {analysis.outlier_results[m].outlier_rows : m \in DOMAIN analysis.outlier_results}

\* C23: the OutliersCheck score equals 1 - 0.4*outlier_percentage
\* - min(0.2, 0.05*methods_with_outliers) - 0.1 if some row carries more
\* than one outlier finding, clamped to [0,1], where outlier_percentage is
\* the size of the union of the rows flagged by the enabled methods divided
\* by the row count.
C23_OutliersScoreFormula ==
    Scored("outliers") =>
        LET analysis == outcome[1].result.analysis
            flagged == Cardinality(FlaggedByMethods(analysis))
            methods == Cardinality({m \in DOMAIN analysis.outlier_results :
                                       analysis.outlier_results[m].outlier_rows # {}})
        IN  outcome[1].result.score
              = Max(0, Min(ScoreScale,
                    ScoreScale
                      - (IF flagged = 0 THEN 0
                         ELSE (2 * ScoreScale * flagged) \div (5 * NRows(data)))
                      - Min(ScoreScale \div 5, (ScoreScale * methods) \div 20)
                      - (IF SeveralFindingsInARow(analysis)
                         THEN ScoreScale \div 10 ELSE 0)))

\* every numeric threshold of the check's configuration is in its range
ThresholdsInRange(chk) ==
    /\ 0 <= chk.config.threshold /\ chk.config.threshold <= 100
    /\ chk.kind = "missing_values" =>
          /\ 0 <= chk.config.missing_threshold /\ chk.config.missing_threshold <= 100
          /\ 0 <= chk.config.critical_threshold /\ chk.config.critical_threshold <= 100
          /\ chk.config.missing_threshold < chk.config.critical_threshold
    /\ chk.kind = "duplicates" =>
          0 <= chk.config.fuzzy_threshold /\ chk.config.fuzzy_threshold <= 100
    /\ chk.kind = "outliers" =>
          /\ chk.config.zscore_threshold > 0
          /\ chk.config.iqr_multiplier > 0
          /\ chk.config.modified_zscore_threshold > 0

\* C24: after construction and any sequence of update_config calls,
\* validate_config() returns true only if every numeric threshold of the
\* configuration is in its documented range: the base threshold,
\* missing_threshold, critical_threshold and fuzzy_threshold in [0,1],
\* missing_threshold strictly below critical_threshold, and the z-score,
\* IQR and modified z-score cutoffs strictly positive.
C24_ValidConfigInRange ==
    (check # <<>> /\ ValidateConfig(check[1])) => ThresholdsInRange(check[1])

\* C25: with use_sampling enabled and a valid configuration, the number of
\* pairwise row-similarity computations made by one fuzzy duplicate
\* detection never exceeds max_fuzzy_comparisons, whatever the number of
\* rows of the dataset.
C25_ComparisonsWithinCap ==
    (/\ outcome # <<>>
     /\ check[1].kind = "duplicates"
     /\ outcome[1].execute_calls = 1
     /\ check[1].config.fuzzy_matching
     /\ check[1].config.use_sampling) =>
        FuzzyComparisons(check[1].config, data) <= check[1].config.max_fuzzy_comparisons

\* the rows of the dataset that an enabled method flagged: the exact and
\* the business-key duplicates, and the rows at the positions of the fuzzy
\* pairs in the sample
RowsFlagged(config, analysis) ==
    (IF config.exact_matching THEN DuplicatedRows(data, 1..NCols(data)) ELSE {})
      \cup (IF config.fuzzy_matching
            THEN {FuzzySample(config, data)[p] :
                     p \in GraphNodes(analysis.fuzzy_duplicates.duplicate_pairs)}
            ELSE {})
      \cup (IF config.business_key_matching
            THEN DuplicatedRows(data, KeyColumns(config, data)) ELSE {})

\* C27: every index in the aggregated duplicate row-set identifies a row of
\* the dataset that a method flagged, and one row is identified by the same
\* index whichever method flagged it; hence the union never has more members
\* than the dataset has rows and duplicate_percentage <= 1, also when the
\* row index is not 0..n-1.
C27_IndicesIdentifyFlaggedRows ==
    Scored("duplicates") =>
        LET analysis == outcome[1].result.analysis
        IN  /\ analysis.all_duplicate_rows
                  = RowLabels(data, RowsFlagged(check[1].config, analysis))
            /\ analysis.total_duplicate_rows <= NRows(data)
            /\ analysis.duplicate_percentage.num <= analysis.duplicate_percentage.den

\* C28: for every dataset with at least one row and one column in which no
\* cell is missing under any enabled detection method, MissingValuesCheck
\* returns score 1.0: the systematic-pattern penalty applies only to a row
\* pattern in which at least one column is missing.
C28_CleanDatasetScoresOne ==
    (/\ Scored("missing_values")
     /\ NRows(data) > 0
     /\ NCols(data) > 0
     /\ \A i \in 1..NRows(data) : \A j \in 1..NCols(data) :
           MethodsMatching(check[1].config, data.rows[i][j]) = 0) =>
        outcome[1].result.score = ScoreScale

\* the configuration of the check is the default one with its optional
\* pattern analysis turned off
PatternAnalysisOff ==
    \/ /\ check[1].kind = "missing_values"
       /\ check[1].config = [MissingValuesConfig EXCEPT !.analyze_patterns = FALSE]
    \/ /\ check[1].kind = "duplicates"
       /\ check[1].config = [DuplicatesConfig EXCEPT !.analyze_duplicate_patterns = FALSE]
    \/ /\ check[1].kind = "outliers"
       /\ check[1].config = [OutliersConfig EXCEPT !.analyze_outlier_patterns = FALSE]

\* C29: turning off an optional analysis step (analyze_patterns,
\* analyze_duplicate_patterns, analyze_outlier_patterns) never turns the
\* result into status error: the check still returns a scored result.
C29_PatternAnalysisOffIsNoError ==
    (outcome # <<>> /\ PatternAnalysisOff /\ PlainFrame) =>
        outcome[1].result.status # "error"

(***************************************************************************)
(* A property of DataQualityEngine on a dataset of no rows, checked under  *)
(* Spec.                                                                   *)
(***************************************************************************)
\* C26: for a dataset with zero rows, run_quality_checks still returns one
\* result per requested known check type (the degenerate input is reported
\* as data, for instance as status error), rather than an empty list.
C26_EmptyDatasetStillReported ==
    (requested # <<>> /\ NRows(data) = 0) =>
        /\ Len(returned) = Len(SelectSeq(TypesToRun(requested[1]), IsKnownType))
        /\ \A k \in 1..Len(returned) :
              returned[k].check_type
                  = SelectSeq(TypesToRun(requested[1]), IsKnownType)[k]

(***************************************************************************)
(* A property of PerformanceMonitor under concurrent callers, checked      *)
(* under SpecMonitor.                                                      *)
(***************************************************************************)
\* thread t is in the block of stop_timer(name) and the timer is started
StoppingStartedTimer(t) ==
    /\ threads[t].pc = "body"
    /\ threads[t].frame = "stop_timer"
    /\ threads[t].name \in DOMAIN active_timers

\* C30: stop_timer(name), called for a timer started with start_timer(name),
\* terminates: the call returns an elapsed time with the timer removed from
\* active_timers, and no thread is left blocked forever on the monitor's
\* lock, under any interleaving of start_timer, stop_timer and record_metric
\* calls.
C30_StopTimerTerminates ==
    \A t \in Threads :
        /\ StoppingStartedTimer(t) ~>
               (/\ threads[t].pc = "idle"
                /\ threads[t].ret \in {<<e>> : e \in 0..MaxElapsed})
        /\ (threads[t].pc = "lock") ~> (threads[t].pc # "lock")
====
